---- MODULE Spec2Model ----
(***************************************************************************)
(* GridImgViewer (src/main.py): the triage core of class App.              *)
(* State: the four slots, the load-time listing and the backlog, the three *)
(* counters, the undo stack, the statistics bar, and the file system the   *)
(* handlers act on (image folder, its kept/ subfolder, the backup store).  *)
(* One action per key handler / folder load; file operations that can      *)
(* raise take their outcome from the environment. The thumbnail cache, its *)
(* decode tasks and the thumbnail each slot displays are part of the       *)
(* state; a decode task runs on a pool thread, one action per step of it.  *)
(***************************************************************************)
EXTENDS Integers, Sequences, FiniteSets, TLC

\* ------------------------------------------------------------------ bounds
MaxFiles == 5
MaxSteps == 3
MaxWork == 3

\* ------------------------------------------------------- program constants
GRID_ROWS == 2
GRID_COLS == 2

VARIABLES
    fs,              \* the file system: path -> content, for the files that exist
    current_folder,  \* App.current_folder ("" until the first load)
    paths,           \* App.paths: the listing captured at load time
    queue_paths,     \* App.queue_paths: the backlog
    slots,           \* ImageSlot._path of each slot, NoPath for None
    total_deleted,
    total_kept,
    total_seen,
    undo_stack,      \* App.undo_stack: a sequence of batches
    stats,           \* the StatsBar fields
    cache,           \* ThumbnailCache._cache: path -> thumbnail
    photo,           \* ImageSlot._photo of each slot, NoPhoto for None
    tasks,           \* the decode tasks submitted to the executor and not finished
    work,            \* steps the pool threads took so far
    scope,           \* what this run explores besides the handlers: "files" or "thumbs"
    calls,           \* folder loads and discard / keep calls made so far
    env,             \* what the environment did so far: file operations it made
                     \* fail, files the user created outside the program
    call,            \* what the last handler call was and what it signalled
    snap             \* values before the last discard, kept while the next call is its undo

vars == <<fs, current_folder, paths, queue_paths, slots, total_deleted, total_kept,
          total_seen, undo_stack, stats, cache, photo, tasks, work, scope,
          calls, env, call, snap>>

\* ------------------------------------------------------------------- paths
\* A path is directory + stem + suffix. The stem is the list of the pieces the
\* program's f-strings put together: the base name, then "_restored_<i>" (R)
\* and "_<i>" (U) pieces appended by the collision-safe renamings, and for a
\* backup the digest piece (H) in front.
Tok(t, i) == [t |-> t, i |-> i]
MkPath(dir, stem, ext) == [dir |-> dir, stem |-> stem, ext |-> ext]

\* Python's None / "" for a path
NoPath == MkPath("", <<>>, "")

Folder == "F"
KeptFolder == "F/kept"
BackupFolder == "session_restore"

\* the suffix of the i-th file of the initial folder: mixed case on purpose
InitialExt(i) == IF i = 2 THEN ".PNG" ELSE ".jpg"
InitialFile(i) == MkPath(Folder, <<Tok("B", i)>>, InitialExt(i))
NotesFile == MkPath(Folder, <<Tok("B", 0)>>, ".txt")
\* what a file holds: the image an initial file was created with, or whatever a
\* file not written by this session holds
ImageContent(i) == <<"image", i>>
ExternalContent == <<"external", 0>>

Exists(f, p) == p \in DOMAIN f
Put(f, p, c) == [q \in DOMAIN f \cup {p} |-> IF q = p THEN c ELSE f[q]]
Remove(f, p) == [q \in DOMAIN f \ {p} |-> f[q]]

Max(a, b) == IF a >= b THEN a ELSE b
Min(a, b) == IF a <= b THEN a ELSE b

\* str.lower() on a suffix
Lower(ext) ==
    CASE ext = ".PNG" -> ".png"
      [] ext = ".JPG" -> ".jpg"
      [] OTHER -> ext

exts == {".jpg", ".jpeg", ".png", ".gif", ".bmp", ".tiff", ".webp"}

\* ---------------------------------------------------------------- sorting
\* sorted(p.iterdir()) orders the entries by name. In a name the stem is
\* followed by "." and every appended piece starts with "_", so a stem sorts
\* before its extensions ("." < "_"), "_<i>" before "_restored_<i>"
\* (digits < "r"), and an upper-case suffix before a lower-case one.
TokRank(t) == CASE t = "B" -> 0 [] t = "H" -> 0 [] t = "U" -> 1 [] OTHER -> 2
TokLess(a, b) ==
    \/ TokRank(a.t) < TokRank(b.t)
    \/ TokRank(a.t) = TokRank(b.t) /\ a.i < b.i

RECURSIVE StemLess(_, _)
StemLess(s, t) ==
    IF s = <<>> THEN t # <<>>
    ELSE IF t = <<>> THEN FALSE
    ELSE IF Head(s) = Head(t) THEN StemLess(Tail(s), Tail(t))
    ELSE TokLess(Head(s), Head(t))

ExtRank(e) == CASE e = ".PNG" -> 0 [] e = ".JPG" -> 1 [] e = ".jpg" -> 2 [] e = ".png" -> 3 [] OTHER -> 4
PathLess(p, q) ==
    \/ StemLess(p.stem, q.stem)
    \/ p.stem = q.stem /\ ExtRank(p.ext) < ExtRank(q.ext)

RECURSIVE Sorted(_)
Sorted(S) ==
    IF S = {} THEN <<>>
    ELSE LET m == CHOOSE x \in S : \A y \in S \ {x} : PathLess(x, y)
         IN  <<m>> \o Sorted(S \ {m})

\* ------------------------------------------------------------------ slots
Coords == (0 .. GRID_ROWS - 1) \X (0 .. GRID_COLS - 1)
\* row-major order, as _fill_all and the delete_all key walk the grid
RowMajor == [i \in 1 .. GRID_ROWS * GRID_COLS |->
                <<(i - 1) \div GRID_COLS, (i - 1) % GRID_COLS>>]
\* the coordinate lists the key handler passes: one slot, or all of them
KeyCoords == {<<rc>> : rc \in Coords} \cup {RowMajor}

Occupied == {rc \in Coords : slots[rc] # NoPath}

\* faulty variant: a refresh that leaves the kept count out of the display
RefreshStatsNoKept(ps, q, deleted, kept, seen) ==
    [total |-> Len(ps), left |-> Len(q), deleted |-> deleted, kept |-> 0, seen |-> seen]

\* --------------------------------------------------------------- statistics
\* _refresh_stats -> StatsBar.update_stats
RefreshStats(ps, q, deleted, kept, seen) ==
    [total |-> Len(ps), left |-> Len(q), deleted |-> deleted, kept |-> kept, seen |-> seen]

\* -------------------------------------------------------------- thumbnails
\* a thumbnail: the PhotoImage one decode of a path made; gen tells two decodes
\* of one path apart (the number of handler calls made when it was requested)
Img(path, gen) == [path |-> path, gen |-> gen]
\* Python's None for a thumbnail: the slot shows the placeholder
NoPhoto == Img(NoPath, 0)

\* whether load_thumb makes a thumbnail of a file: the first image is a valid
\* image file, every other file is damaged and Image.open raises on it
Decodes(c) == c = ImageContent(1)

\* a decode task and the done callback chained to it; pc is where it stands:
\* "queued" (load_thumb not finished), "stored" (the thumbnail is in the cache,
\* callback not yet called), "checked" (_on_thumb_ready found its path in the
\* slot and has not yet written the thumbnail)
Task(path, rc, gen, pc) == [path |-> path, rc |-> rc, gen |-> gen, pc |-> pc]

\* _on_thumb_ready(r, c, path, photo), called with the slots as they are then
OnThumbReady(ph, sl, rc, path, img) ==
    IF sl[rc] = path THEN [ph EXCEPT ![rc] = img] ELSE ph

\* faulty variant: a request that submits a decode task also for a cached path
GetOrSubmitAlways(st, rc, path) ==
    IF Exists(st.cache, path)
    THEN [st EXCEPT !.photo = OnThumbReady(@, st.slots, rc, path, st.cache[path]),
                    !.tasks = @ \cup {Task(path, rc, st.gen, "queued")}]
    ELSE IF Exists(st.fs, path) /\ Decodes(st.fs[path])
    THEN [st EXCEPT !.tasks = @ \cup {Task(path, rc, st.gen, "queued")}]
    ELSE st

\* ThumbnailCache.get_or_submit(path, callback) with the callback the handlers
\* pass, on st = [fs, slots, cache, photo, tasks, gen, ..]: a cached thumbnail
\* is delivered at once, by the caller; otherwise a task is submitted. A task
\* whose decode raises ends without touching any state: it is not recorded.
GetOrSubmit(st, rc, path) ==
    IF Exists(st.cache, path)
    THEN [st EXCEPT !.photo = OnThumbReady(@, st.slots, rc, path, st.cache[path])]
    ELSE IF Exists(st.fs, path) /\ Decodes(st.fs[path])
    THEN [st EXCEPT !.tasks = @ \cup {Task(path, rc, st.gen, "queued")}]
    ELSE st

\* ---------------------------------------------------------------- filling
\* faulty variant: a fill that leaves the shown path on the backlog
FillSlotNoPop(st, rc) ==
    IF st.queue_paths = <<>>
    THEN [st EXCEPT !.slots[rc] = NoPath, !.photo[rc] = NoPhoto]
    ELSE GetOrSubmit([st EXCEPT !.slots[rc] = Head(st.queue_paths),
                                !.total_seen = @ + 1],
                     rc, Head(st.queue_paths))

\* faulty variant: a fill that takes the last path of the backlog
FillSlotFromBack(st, rc) ==
    IF st.queue_paths = <<>>
    THEN [st EXCEPT !.slots[rc] = NoPath, !.photo[rc] = NoPhoto]
    ELSE GetOrSubmit([st EXCEPT !.slots[rc] = st.queue_paths[Len(st.queue_paths)],
                                !.queue_paths = SubSeq(@, 1, Len(@) - 1),
                                !.total_seen = @ + 1],
                     rc, st.queue_paths[Len(st.queue_paths)])

\* faulty variant: a fill that counts a slot left empty as seen
FillSlotCountEmpty(st, rc) ==
    IF st.queue_paths = <<>>
    THEN [st EXCEPT !.slots[rc] = NoPath, !.photo[rc] = NoPhoto, !.total_seen = @ + 1]
    ELSE GetOrSubmit([st EXCEPT !.slots[rc] = Head(st.queue_paths),
                                !.queue_paths = Tail(st.queue_paths),
                                !.total_seen = @ + 1],
                     rc, Head(st.queue_paths))

\* faulty variant: a fill that assigns a path without counting it as seen
FillSlotSkipCount(st, rc) ==
    IF st.queue_paths = <<>>
    THEN [st EXCEPT !.slots[rc] = NoPath, !.photo[rc] = NoPhoto]
    ELSE GetOrSubmit([st EXCEPT !.slots[rc] = Head(st.queue_paths),
                                !.queue_paths = Tail(st.queue_paths)],
                     rc, Head(st.queue_paths))

\* _next_image + _fill_slot for one slot, on
\* st = [fs, slots, queue_paths, total_seen, cache, photo, tasks, gen]
FillSlot(st, rc) ==
    IF st.queue_paths = <<>>
    THEN [st EXCEPT !.slots[rc] = NoPath, !.photo[rc] = NoPhoto]
    ELSE GetOrSubmit([st EXCEPT !.slots[rc] = Head(st.queue_paths),
                                !.queue_paths = Tail(st.queue_paths),
                                !.total_seen = @ + 1],
                     rc, Head(st.queue_paths))

\* faulty variant: the coordinates are filled last to first
RECURSIVE FillSlotsBackwards(_, _)
FillSlotsBackwards(st, cs) ==
    IF cs = <<>> THEN st
    ELSE FillSlotsBackwards(FillSlot(st, cs[Len(cs)]), SubSeq(cs, 1, Len(cs) - 1))

\* faulty variant: only the first coordinate is filled
FillSlotsFirstOnly(st, cs) ==
    IF cs = <<>> THEN st ELSE FillSlot(st, Head(cs))

\* _fill_slot for each coordinate of cs, in order
RECURSIVE FillSlots(_, _)
FillSlots(st, cs) ==
    IF cs = <<>> THEN st
    ELSE FillSlots(FillSlot(st, Head(cs)), Tail(cs))

\* what FillSlots starts from in a handler: the given file system, slots,
\* backlog, seen counter and displayed thumbnails, the cache and tasks as they are
FillState(f, sl, q, seen, ph) ==
    [fs |-> f, slots |-> sl, queue_paths |-> q, total_seen |-> seen,
     cache |-> cache, photo |-> ph, tasks |-> tasks, gen |-> calls]

\* the coordinates of a batch's records, in batch order
BatchCoords(batch) == [i \in 1 .. Len(batch) |-> <<batch[i].r, batch[i].c>>]

\* ----------------------------------------------------------------- naming
\* _backup_for_path: sha1 of the path as the name, the original suffix kept.
\* The digest is modelled as collision-free: one backup name per path.
BackupForPath(p) == MkPath(BackupFolder, <<Tok("H", 0)>> \o p.stem, p.ext)

\* the first free "<stem>_restored_<i><suffix>", i = 1, 2, ...
RECURSIVE RestoredCandidate(_, _, _)
RestoredCandidate(f, p, i) ==
    LET candidate == [p EXCEPT !.stem = Append(@, Tok("R", i))]
    IN  IF ~Exists(f, candidate) THEN candidate ELSE RestoredCandidate(f, p, i + 1)

\* faulty variant: a restore that always aims at the original path
RestoreTargetOverwrite(f, original) == original

\* where _undo_last puts back a discarded file
RestoreTarget(f, original) ==
    IF Exists(f, original) THEN RestoredCandidate(f, original, 1) ELSE original

RECURSIVE UniqueSuffixed(_, _, _, _)
UniqueSuffixed(f, dir, p, i) ==
    LET c == MkPath(dir, Append(p.stem, Tok("U", i)), p.ext)
    IN  IF ~Exists(f, c) THEN c ELSE UniqueSuffixed(f, dir, p, i + 1)

\* _unique_target(directory, name of p)
UniqueTarget(f, dir, p) ==
    LET candidate == MkPath(dir, p.stem, p.ext)
    IN  IF ~Exists(f, candidate) THEN candidate ELSE UniqueSuffixed(f, dir, p, 1)

\* ------------------------------------------------------------------- batch
Rec(rc, path, backup, op) ==
    [r |-> rc[1], c |-> rc[2], path |-> path, backup |-> backup, op |-> op]

\* faulty variant: a push of one stack entry per record
PushBatchPerRecord(stack, batch) ==
    stack \o [i \in 1 .. Len(batch) |-> <<batch[i]>>]

\* if batch: self.undo_stack.append(batch)
PushBatch(stack, batch) ==
    IF batch # <<>> THEN Append(stack, batch) ELSE stack

NoSnap == [set |-> FALSE]
Call(op, cs, bells, batch, restored) ==
    [op |-> op, coords |-> cs, bells |-> bells, batch |-> batch, restored |-> restored,
     img |-> NoPhoto]

\* -------------------------------------------------------------------- init
\* files an earlier session left in kept/: they take the names 1.jpg, 1_1.jpg
\* and 3.jpg, so keeping image 1 or 3 collides and keeping the others does not
EarlierKept ==
    {MkPath(KeptFolder, <<Tok("B", 1)>>, InitialExt(1)),
     MkPath(KeptFolder, <<Tok("B", 1), Tok("U", 1)>>, InitialExt(1)),
     MkPath(KeptFolder, <<Tok("B", 3)>>, InitialExt(3))}

\* App.__init__: empty session; the folder on disk holds 0..MaxFiles images and
\* one file that is no image; the backup store was just cleared.
Init ==
    /\ \E n \in 0 .. MaxFiles :
          fs = [p \in {InitialFile(i) : i \in 1 .. n} \cup {NotesFile} \cup EarlierKept
                  |-> IF p.dir = Folder /\ p # NotesFile THEN ImageContent(p.stem[1].i)
                      ELSE ExternalContent]
    /\ current_folder = ""
    /\ paths = <<>>
    /\ queue_paths = <<>>
    /\ slots = [rc \in Coords |-> NoPath]
    /\ total_deleted = 0
    /\ total_kept = 0
    /\ total_seen = 0
    /\ undo_stack = <<>>
    /\ stats = RefreshStats(<<>>, <<>>, 0, 0, 0)
    /\ cache = [p \in {} |-> NoPhoto]
    /\ photo = [rc \in Coords |-> NoPhoto]
    /\ tasks = {}
    /\ work = 0
    /\ scope \in {"files", "thumbs"}
    /\ calls = 0
    /\ env = 0
    /\ call = Call("init", <<>>, 0, <<>>, <<>>)
    /\ snap = NoSnap

\* ----------------------------------------------------------------- budgets
\* A run of scope "files" lets the environment fail file operations and touch
\* files, and no decode completes in it; a run of scope "thumbs" lets the pool
\* threads run, up to MaxWork steps, and no file operation fails in it. Allowed
\* says whether a step making c handler calls and e environment events fits.
StepBudget == IF scope = "files" THEN MaxSteps ELSE MaxSteps - 1
Allowed(c, e) ==
    /\ calls + env + c + e <= StepBudget
    /\ scope = "thumbs" => e = 0

\* -------------------------------------------------------------------- load
\* the sorted, extension-filtered listing of a folder
Listing(f, folder) ==
    Sorted({p \in DOMAIN f : p.dir = folder /\ Lower(p.ext) \in exts})

\* _load_folder(folder)
LoadFolder ==
    LET listing == Listing(fs, Folder)
        cleared == FillState(fs, [rc \in Coords |-> NoPath], listing, 0,
                             [rc \in Coords |-> NoPhoto])
        filled  == FillSlots(cleared, RowMajor)
    IN  /\ Allowed(1, 0)
        /\ calls' = calls + 1
        /\ paths' = listing
        /\ queue_paths' = filled.queue_paths
        /\ total_deleted' = 0
        /\ total_seen' = filled.total_seen
        /\ current_folder' = Folder
        /\ slots' = filled.slots
        /\ stats' = RefreshStats(listing, filled.queue_paths, 0, total_kept, filled.total_seen)
        /\ call' = Call("load", <<>>, 0, <<>>, <<>>)
        /\ snap' = NoSnap
        /\ photo' = filled.photo
        /\ tasks' = filled.tasks
        /\ UNCHANGED <<fs, total_kept, undo_stack, cache, work, scope, env>>

\* ------------------------------------------------------------------ discard
\* faulty variant: an increment taken before the trash outcome is known
CountDeletedAlways(n, trashed) == n + 1

\* send2trash(path); self.total_deleted += 1 -- the increment is skipped when
\* send2trash raises
CountDeleted(n, trashed) == IF trashed THEN n + 1 ELSE n

\* faulty variant: a discard that gives up on a file whose backup copy failed
RECURSIVE DeleteLoopNeedsBackup(_, _, _, _)
DeleteLoopNeedsBackup(cs, i, io, acc) ==
    IF i > Len(cs) THEN acc
    ELSE LET rc == cs[i]
             path == slots[rc]
         IN  IF path = NoPath
             THEN DeleteLoopNeedsBackup(cs, i + 1, io, [acc EXCEPT !.bells = @ + 1])
             ELSE LET backup  == BackupForPath(path)
                      copied  == io[i].copy /\ Exists(acc.fs, path)
                      fs1     == IF copied THEN Put(acc.fs, backup, acc.fs[path]) ELSE acc.fs
                      trashed == copied /\ io[i].trash
                      fs2     == IF trashed THEN Remove(fs1, path) ELSE fs1
                  IN  DeleteLoopNeedsBackup(cs, i + 1, io,
                        [acc EXCEPT !.fs = fs2,
                                    !.total_deleted = CountDeleted(@, trashed),
                                    !.batch = IF copied
                                              THEN Append(@, Rec(rc, path, backup, "delete"))
                                              ELSE @])

\* the loop of _delete_slots over cs[i..]; acc = [fs, total_deleted, batch, bells];
\* io[i] = [copy, trash]: whether the environment lets copy2 / send2trash succeed
RECURSIVE DeleteLoop(_, _, _, _)
DeleteLoop(cs, i, io, acc) ==
    IF i > Len(cs) THEN acc
    ELSE LET rc == cs[i]
             path == slots[rc]
         IN  IF path = NoPath
             THEN DeleteLoop(cs, i + 1, io, [acc EXCEPT !.bells = @ + 1])
             ELSE LET backup  == BackupForPath(path)
                      copied  == io[i].copy /\ Exists(acc.fs, path)
                      fs1     == IF copied THEN Put(acc.fs, backup, acc.fs[path]) ELSE acc.fs
                      trashed == io[i].trash /\ Exists(fs1, path)
                      fs2     == IF trashed THEN Remove(fs1, path) ELSE fs1
                  IN  DeleteLoop(cs, i + 1, io,
                        [acc EXCEPT !.fs = fs2,
                                    !.total_deleted = CountDeleted(@, trashed),
                                    !.batch = Append(@, Rec(rc, path,
                                                 IF copied THEN backup ELSE NoPath, "delete"))])

\* the outcomes the environment can give a discard of cs: io[i].copy and
\* io[i].trash say whether copy2 and send2trash succeed for cs[i] (nothing is
\* attempted, so nothing can fail, where the slot is empty)
Outcomes(cs) ==
    {io \in [1 .. Len(cs) -> [copy : BOOLEAN, trash : BOOLEAN]] :
        \A i \in 1 .. Len(cs) :
            slots[cs[i]] = NoPath => io[i] = [copy |-> TRUE, trash |-> TRUE]}

\* how many operations of an outcome fail
RECURSIVE Failures(_, _)
Failures(flags, i) ==
    IF i > Len(flags) THEN 0
    ELSE (IF flags[i] THEN 0 ELSE 1) + Failures(flags, i + 1)

DeleteFailures(io) ==
    Failures([i \in 1 .. Len(io) |-> io[i].copy], 1) + Failures([i \in 1 .. Len(io) |-> io[i].trash], 1)

BackupStore(f) == [p \in {q \in DOMAIN f : q.dir = BackupFolder} |-> f[p]]

\* _delete_slots(coords)
DeleteSlots ==
    \E cs \in KeyCoords : \E io \in Outcomes(cs) :
        LET done   == DeleteLoop(cs, 1, io,
                         [fs |-> fs, total_deleted |-> total_deleted, batch |-> <<>>, bells |-> 0])
            filled == FillSlots(FillState(done.fs, slots, queue_paths, total_seen, photo),
                                BatchCoords(done.batch))
        IN  /\ Allowed(1, DeleteFailures(io))
            /\ calls' = calls + 1
            /\ env' = env + DeleteFailures(io)
            /\ fs' = done.fs
            /\ total_deleted' = done.total_deleted
            /\ undo_stack' = PushBatch(undo_stack, done.batch)
            /\ slots' = filled.slots
            /\ queue_paths' = filled.queue_paths
            /\ total_seen' = filled.total_seen
            /\ stats' = RefreshStats(paths, filled.queue_paths, done.total_deleted,
                                     total_kept, filled.total_seen)
            /\ call' = Call("delete", cs, done.bells, done.batch, <<>>)
            /\ snap' = [set |-> TRUE, coords |-> cs, batch |-> done.batch,
                        fs |-> fs, queue_paths |-> queue_paths, total_seen |-> total_seen,
                        total_deleted |-> total_deleted, total_kept |-> total_kept]
            /\ photo' = filled.photo
            /\ tasks' = filled.tasks
            /\ UNCHANGED <<current_folder, paths, total_kept, cache, work, scope>>

\* --------------------------------------------------------------------- keep
\* _kept_dir: None before the first load, or when mkdir raises
KeptDir(mk) == IF current_folder # "" /\ mk THEN KeptFolder ELSE ""

\* faulty variant: an increment taken before the move outcome is known
CountKeptAlways(n, moved) == n + 1

\* shutil.move(...); self.total_kept += 1 -- skipped when the move raises
CountKept(n, moved) == IF moved THEN n + 1 ELSE n

\* the loop of _keep_slots over cs[i..]; acc = [fs, total_kept, batch, bells];
\* moves[i]: whether the environment lets shutil.move succeed for cs[i]
RECURSIVE KeepLoop(_, _, _, _, _)
KeepLoop(cs, i, moves, kept_dir, acc) ==
    IF i > Len(cs) THEN acc
    ELSE LET rc == cs[i]
             path == slots[rc]
         IN  IF path = NoPath
             THEN KeepLoop(cs, i + 1, moves, kept_dir, [acc EXCEPT !.bells = @ + 1])
             ELSE LET target == UniqueTarget(acc.fs, kept_dir, path)
                      moved  == moves[i] /\ Exists(acc.fs, path)
                  IN  KeepLoop(cs, i + 1, moves, kept_dir,
                        [acc EXCEPT !.fs = IF moved
                                           THEN Put(Remove(@, path), target, acc.fs[path])
                                           ELSE @,
                                    !.total_kept = CountKept(@, moved),
                                    !.batch = IF moved
                                              THEN Append(@, Rec(rc, path, target, "keep"))
                                              ELSE @])

MoveOutcomes(cs) ==
    {moves \in [1 .. Len(cs) -> BOOLEAN] :
        \A i \in 1 .. Len(cs) : slots[cs[i]] = NoPath => moves[i]}

\* _keep_slots(coords)
KeepSlots ==
    \E cs \in KeyCoords : \E mk \in BOOLEAN : \E moves \in MoveOutcomes(cs) :
        LET kept_dir == KeptDir(mk)
            done     == KeepLoop(cs, 1, moves, kept_dir,
                           [fs |-> fs, total_kept |-> total_kept, batch |-> <<>>, bells |-> 0])
            filled   == FillSlots(FillState(done.fs, slots, queue_paths, total_seen, photo),
                                  BatchCoords(done.batch))
            failed   == (IF current_folder # "" /\ ~mk THEN 1 ELSE 0)
                        + (IF kept_dir = "" THEN 0 ELSE Failures(moves, 1))
        IN  /\ calls' = calls + 1
            /\ current_folder = "" => mk
            /\ kept_dir = "" => \A i \in 1 .. Len(cs) : moves[i]
            /\ Allowed(1, failed)
            /\ env' = env + failed
            /\ snap' = NoSnap
            /\ UNCHANGED <<cache, work, scope>>
            /\ IF kept_dir = ""
               THEN /\ call' = Call("keep", cs, 1, <<>>, <<>>)
                    /\ UNCHANGED <<fs, current_folder, paths, queue_paths, slots, total_deleted,
                                   total_kept, total_seen, undo_stack, stats, photo, tasks>>
               ELSE /\ fs' = done.fs
                    /\ total_kept' = done.total_kept
                    /\ undo_stack' = PushBatch(undo_stack, done.batch)
                    /\ slots' = filled.slots
                    /\ queue_paths' = filled.queue_paths
                    /\ total_seen' = filled.total_seen
                    /\ stats' = RefreshStats(paths, filled.queue_paths, total_deleted,
                                             done.total_kept, filled.total_seen)
                    /\ call' = Call("keep", cs, done.bells, done.batch, <<>>)
                    /\ photo' = filled.photo
                    /\ tasks' = filled.tasks
                    /\ UNCHANGED <<current_folder, paths, total_deleted>>

\* --------------------------------------------------------------------- undo
\* faulty variant: an insertion with row and column exchanged
InsertIntoSlotSwapped(sl, rc, path) == [sl EXCEPT ![<<rc[2], rc[1]>>] = path]

\* _insert_into_slot(r, c, path)
InsertIntoSlot(sl, rc, path) == [sl EXCEPT ![rc] = path]

\* max(0, n - 1)
Decrement(n) == Max(0, n - 1)

\* whether _undo_last attempts to restore a record: its backup / kept file is there
Restorable(f, rec) == rec.backup # NoPath /\ Exists(f, rec.backup)

\* the body of the try block of _undo_last for a record it can restore;
\* acc = [fs, slots, total_deleted, total_kept, restored, cache, photo, tasks, gen]
UndoRecord(rec, i, acc) ==
    LET rc == <<rec.r, rec.c>>
    IN  IF rec.op = "delete"
        THEN LET restored_path == RestoreTarget(acc.fs, rec.path)
             IN  GetOrSubmit(
                   [acc EXCEPT !.fs = Put(@, restored_path, acc.fs[rec.backup]),
                               !.slots = InsertIntoSlot(@, rc, restored_path),
                               !.total_deleted = Decrement(@),
                               !.restored = Append(@, [i |-> i, rc |-> rc,
                                                       path |-> restored_path])],
                   rc, restored_path)
        ELSE LET restored_path == IF Exists(acc.fs, rec.path)
                                  THEN UniqueTarget(acc.fs, rec.path.dir, rec.path)
                                  ELSE rec.path
             IN  GetOrSubmit(
                   [acc EXCEPT !.fs = Put(Remove(@, rec.backup), restored_path,
                                          acc.fs[rec.backup]),
                               !.slots = InsertIntoSlot(@, rc, restored_path),
                               !.total_kept = Decrement(@),
                               !.restored = Append(@, [i |-> i, rc |-> rc,
                                                       path |-> restored_path])],
                   rc, restored_path)

\* faulty variant: a reversal that stops at the first record it cannot restore
RECURSIVE UndoLoopAbort(_, _, _, _)
UndoLoopAbort(batch, i, oks, acc) ==
    IF i > Len(batch) THEN acc
    ELSE IF ~Restorable(acc.fs, batch[i]) \/ ~oks[i] THEN acc
    ELSE UndoLoopAbort(batch, i + 1, oks, UndoRecord(batch[i], i, acc))

\* the loop of _undo_last over batch[i..]; oks[i]: whether the environment lets
\* the copy2 / move of record i succeed; a record that cannot be restored, or
\* whose restore raises, is passed over
RECURSIVE UndoLoop(_, _, _, _)
UndoLoop(batch, i, oks, acc) ==
    IF i > Len(batch) THEN acc
    ELSE IF ~Restorable(acc.fs, batch[i]) \/ ~oks[i]
    THEN UndoLoop(batch, i + 1, oks, acc)
    ELSE UndoLoop(batch, i + 1, oks, UndoRecord(batch[i], i, acc))

RestoreOutcomes(batch) ==
    {oks \in [1 .. Len(batch) -> BOOLEAN] :
        \A i \in 1 .. Len(batch) : ~Restorable(fs, batch[i]) => oks[i]}

\* faulty variant: a pop from the bottom of the stack
PopOldest(stack) == [batch |-> Head(stack), rest |-> Tail(stack)]

\* self.undo_stack.pop(): the batch taken and the stack left
Pop(stack) == [batch |-> stack[Len(stack)], rest |-> SubSeq(stack, 1, Len(stack) - 1)]

\* faulty variant: an empty-stack undo that still decrements a counter
UndoNothingDecrement ==
    /\ call' = Call("undo", <<>>, 1, <<>>, <<>>)
    /\ snap' = NoSnap
    /\ total_deleted' = Decrement(total_deleted)
    /\ UNCHANGED <<fs, current_folder, paths, queue_paths, slots,
                   total_kept, total_seen, undo_stack, stats, cache, photo, tasks,
                   work, scope, calls, env>>

\* if not self.undo_stack: self.bell(); return
UndoNothing ==
    /\ call' = Call("undo", <<>>, 1, <<>>, <<>>)
    /\ snap' = NoSnap
    /\ UNCHANGED <<fs, current_folder, paths, queue_paths, slots, total_deleted,
                   total_kept, total_seen, undo_stack, stats, cache, photo, tasks,
                   work, scope, calls, env>>

\* _undo_last()
UndoLast ==
    IF undo_stack = <<>>
    THEN UndoNothing
    ELSE \E oks \in RestoreOutcomes(Pop(undo_stack).batch) :
            LET popped == Pop(undo_stack)
                done   == UndoLoop(popped.batch, 1, oks,
                             [fs |-> fs, slots |-> slots, total_deleted |-> total_deleted,
                              total_kept |-> total_kept, restored |-> <<>>,
                              cache |-> cache, photo |-> photo, tasks |-> tasks,
                              gen |-> calls])
            IN  /\ Allowed(0, Failures(oks, 1))
                /\ env' = env + Failures(oks, 1)
                /\ undo_stack' = popped.rest
                /\ fs' = done.fs
                /\ slots' = done.slots
                /\ total_deleted' = done.total_deleted
                /\ total_kept' = done.total_kept
                /\ stats' = IF done.restored # <<>>
                            THEN RefreshStats(paths, queue_paths, done.total_deleted,
                                              done.total_kept, total_seen)
                            ELSE stats
                /\ call' = Call("undo", <<>>, 0, popped.batch, done.restored)
                /\ snap' = IF call.op = "delete" THEN snap ELSE NoSnap
                /\ photo' = done.photo
                /\ tasks' = done.tasks
                /\ UNCHANGED <<current_folder, paths, queue_paths, total_seen, cache,
                               work, scope, calls>>

\* -------------------------------------------------------------- environment
\* The user creates a file outside the program at the original path of a record
\* of the batch the next undo will reverse.
WantedNames ==
    IF undo_stack = <<>> THEN {}
    ELSE {Pop(undo_stack).batch[i].path : i \in DOMAIN Pop(undo_stack).batch}

ExternalCreate ==
    \E p \in WantedNames :
        /\ Allowed(0, 1)
        /\ ~Exists(fs, p)
        /\ fs' = Put(fs, p, ExternalContent)
        /\ env' = env + 1
        /\ call' = Call("external", <<>>, 0, <<>>, <<>>)
        /\ snap' = NoSnap
        /\ UNCHANGED <<current_folder, paths, queue_paths, slots, total_deleted, total_kept,
                       total_seen, undo_stack, stats, cache, photo, tasks, work, scope, calls>>

\* The user deletes, outside the program, the backup or kept file of a record
\* of the batch the next undo will reverse.
NeededFiles ==
    IF undo_stack = <<>> THEN {}
    ELSE {Pop(undo_stack).batch[i].backup : i \in DOMAIN Pop(undo_stack).batch} \ {NoPath}

ExternalDelete ==
    \E p \in NeededFiles :
        /\ Allowed(0, 1)
        /\ Exists(fs, p)
        /\ fs' = Remove(fs, p)
        /\ env' = env + 1
        /\ call' = Call("external", <<>>, 0, <<>>, <<>>)
        /\ snap' = NoSnap
        /\ UNCHANGED <<current_folder, paths, queue_paths, slots, total_deleted, total_kept,
                       total_seen, undo_stack, stats, cache, photo, tasks, work, scope, calls>>

\* load_thumb(p) of a task: the thumbnail, or None when Image.open raises
LoadThumb(t, ok) == IF ok THEN Img(t.path, t.gen) ELSE NoPhoto

\* faulty variant: a done that writes the cache entry whatever load_thumb gave
DoneStoresNone(c, path, img) == Put(c, path, img)

\* the cache after done(fut): None is dropped, a thumbnail is stored
Done(c, path, img) == IF img = NoPhoto THEN c ELSE Put(c, path, img)

\* ------------------------------------------------------------ pool threads
\* A task is run by a thread of the executor; the done callback chained to it
\* by add_done_callback runs on that thread as well. Each action below is one
\* step of one task, taken between two handler calls. (Were the future already
\* done when add_done_callback is reached, done would run in the caller: the
\* state that gives is the one the three steps below give when taken in a row.)
Handler == <<fs, current_folder, paths, queue_paths, slots, total_deleted, total_kept,
             total_seen, undo_stack, stats, calls, env, scope>>

WorkerCall(op, t) == [Call(op, <<t.rc>>, 0, <<>>, <<>>) EXCEPT !.img = Img(t.path, t.gen)]

Step(t, pc) == (tasks \ {t}) \cup {[t EXCEPT !.pc = pc]}

\* load_thumb, then done up to the release of the lock: the thumbnail is put in
\* the cache, or the decode raised (the file is gone or unreadable by then) and
\* done returns
WorkerDecode ==
    \E t \in tasks : \E ok \in BOOLEAN :
        /\ t.pc = "queued"
        /\ scope = "thumbs" /\ work < MaxWork
        /\ work' = work + 1
        /\ cache' = Done(cache, t.path, LoadThumb(t, ok))
        /\ tasks' = IF ok THEN Step(t, "stored") ELSE tasks \ {t}
        /\ call' = WorkerCall(IF ok THEN "store" ELSE "fail", t)
        /\ snap' = NoSnap
        /\ UNCHANGED <<Handler, photo>>

\* done calls callback(path, img); _on_thumb_ready reads the slot's path and
\* compares it: a mismatch ends the task
WorkerDeliver ==
    \E t \in tasks :
        /\ t.pc = "stored"
        /\ scope = "thumbs" /\ work < MaxWork
        /\ work' = work + 1
        /\ tasks' = IF slots[t.rc] = t.path THEN Step(t, "checked") ELSE tasks \ {t}
        /\ call' = WorkerCall("deliver", t)
        /\ snap' = NoSnap
        /\ UNCHANGED <<Handler, cache, photo>>

\* slot.set_pixmap(photo), after the comparison succeeded
WorkerWrite ==
    \E t \in tasks :
        /\ t.pc = "checked"
        /\ scope = "thumbs" /\ work < MaxWork
        /\ work' = work + 1
        /\ photo' = [photo EXCEPT ![t.rc] = Img(t.path, t.gen)]
        /\ tasks' = tasks \ {t}
        /\ call' = WorkerCall("write", t)
        /\ snap' = NoSnap
        /\ UNCHANGED <<Handler, cache>>

Next ==
    \/ LoadFolder
    \/ DeleteSlots
    \/ KeepSlots
    \/ UndoLast
    \/ ExternalCreate
    \/ ExternalDelete
    \/ WorkerDecode
    \/ WorkerDeliver
    \/ WorkerWrite

Spec == Init /\ [][Next]_vars

\* ================================================================== claims
\* Steps are told apart by the record of the last call: only the handler named
\* in call'.op writes that name, and every discard / keep call counts in calls.
DiscardStep == call'.op = "delete" /\ calls' = calls + 1
KeepStep    == call'.op = "keep" /\ calls' = calls + 1
DisposeStep == DiscardStep \/ KeepStep
UndoStep    == call'.op = "undo" /\ (undo_stack # <<>> => Len(undo_stack') = Len(undo_stack) - 1)
                                 /\ calls' = calls
LoadStep    == call'.op = "load" /\ calls' = calls + 1

NumSlots == GRID_ROWS * GRID_COLS
IsOccupied(rc) == slots[rc] # NoPath
\* the coordinates of the call whose slot held an image before the call
OccupiedOf(cs) == SelectSeq(cs, IsOccupied)
Range(seq) == {seq[i] : i \in DOMAIN seq}
ImagesOf(f, folder) == {q \in DOMAIN f : q.dir = folder /\ Lower(q.ext) \in exts}

\* C1 (as claimed): a discard of an occupied slot followed immediately by
\* undoLast leaves the Backup Store, the Backlog and the seen, discarded and
\* kept counters exactly as they were before the discard. Stated for the case
\* in which no file operation failed: the backup was written and the undo
\* restored the record.
C1_RoundTrip ==
    (/\ call.op = "undo" /\ snap.set /\ Len(snap.coords) = 1 /\ Len(snap.batch) = 1
     /\ snap.batch[1].backup # NoPath /\ Len(call.restored) = 1)
    => /\ BackupStore(fs) = BackupStore(snap.fs)
       /\ queue_paths = snap.queue_paths
       /\ total_seen = snap.total_seen
       /\ total_deleted = snap.total_deleted
       /\ total_kept = snap.total_kept

\* C2: right after a load, the listing is the folder's image files in sorted
\* order, the first min(4, |F|) of them sit in the slots in row-major order,
\* the other slots are empty, the Backlog holds the remaining max(0, |F| - 4)
\* in order, and the displayed total is |F|.
C2_LoadFillsFirstFour ==
    call.op = "load" =>
        LET n == Len(paths)
            k == Min(NumSlots, n)
        IN  /\ Range(paths) = ImagesOf(fs, Folder)
            /\ n = Cardinality(ImagesOf(fs, Folder))
            /\ \A i \in 1 .. n - 1 : PathLess(paths[i], paths[i + 1])
            /\ Cardinality(Occupied) = k
            /\ \A i \in 1 .. NumSlots :
                  slots[RowMajor[i]] = IF i <= n THEN paths[i] ELSE NoPath
            /\ Len(queue_paths) = Max(0, n - NumSlots)
            /\ queue_paths = SubSeq(paths, k + 1, n)
            /\ stats.total = n

C2_Witness ==
    /\ call.op = "load"
    /\ Len(paths) = NumSlots + 1
    /\ Len(queue_paths) = 1
    /\ Cardinality(Occupied) = NumSlots

\* C3: one discard or keep call pushes at most one Batch and leaves the rest of
\* the Undo Stack as it was: a discard pushes exactly one Batch holding one
\* record per coordinate whose slot was occupied, in coordinate order, and none
\* when every coordinate was empty; a keep pushes exactly one Batch holding one
\* record per file it moved, and none when it moved no file.
C3_OneBatchPerCall ==
    [][DisposeStep =>
        LET cs    == call'.coords
            occ   == OccupiedOf(cs)
            moved == SelectSeq(occ, LAMBDA rc : ~Exists(fs', slots[rc]))
            want  == IF call'.op = "delete" THEN occ ELSE moved
        IN  /\ Len(undo_stack') <= Len(undo_stack) + 1
            /\ SubSeq(undo_stack', 1, Len(undo_stack)) = undo_stack
            /\ IF want = <<>>
               THEN undo_stack' = undo_stack
               ELSE /\ Len(undo_stack') = Len(undo_stack) + 1
                    /\ BatchCoords(undo_stack'[Len(undo_stack')]) = want
                    /\ \A i \in 1 .. Len(want) :
                          undo_stack'[Len(undo_stack')][i].path = slots[want[i]]
    ]_vars

C3_Witness ==
    /\ call.op = "delete"
    /\ Len(call.coords) = NumSlots
    /\ Len(undo_stack) = 2
    /\ Len(undo_stack[2]) = NumSlots
    /\ undo_stack[2] = call.batch

\* the records of the Batch a discard step pushed (none: the empty sequence)
PushedBatch == IF Len(undo_stack') > Len(undo_stack) THEN undo_stack'[Len(undo_stack')] ELSE <<>>

\* C4 (as claimed): after a discard, discarded has grown by the number of
\* records of the Batch, also for a record whose trash call failed.
C4_CountsEveryRecord ==
    [][DiscardStep => total_deleted' = total_deleted + Len(PushedBatch)]_vars

\* C4 (amended): after a discard, discarded has grown by the number of records
\* of the Batch whose file the trash call removed, whatever the backup copy
\* did; a record whose trash call failed is in the Batch and is not counted.
C4_CountsTrashedRecords ==
    [][DiscardStep =>
        LET batch   == PushedBatch
            trashed == {i \in DOMAIN batch : ~Exists(fs', batch[i].path)}
        IN  /\ \A i \in DOMAIN batch : Exists(fs, batch[i].path)
            /\ total_deleted' = total_deleted + Cardinality(trashed)
            /\ stats'.deleted = total_deleted'
    ]_vars

C4_Witness ==
    /\ call.op = "delete"
    /\ Len(call.batch) = NumSlots
    /\ \E i \in DOMAIN call.batch : Exists(fs, call.batch[i].path)
    /\ total_deleted = NumSlots - 1

\* the single record of the Batch on top of the Undo Stack
TopRecord == undo_stack[Len(undo_stack)][1]

\* C5: undoLast called right after a single-slot discard whose backup copy and
\* trash both succeeded, with no file at the original path and the restoring
\* copy not failing, puts the file back at its original path with the content
\* it had before the discard, assigns that path to the slot the record was
\* taken from, leaves the Backlog alone and decrements discarded by 1.
C5_UndoRestoresSameSlot ==
    [][(/\ UndoStep
        /\ call.op = "delete" /\ Len(call.coords) = 1 /\ Len(call.batch) = 1
        /\ TopRecord.backup # NoPath
        /\ ~Exists(fs, TopRecord.path)
        /\ env' = env)
       => /\ TopRecord = call.batch[1]
          /\ <<TopRecord.r, TopRecord.c>> = call.coords[1]
          /\ Exists(fs', TopRecord.path)
          /\ fs'[TopRecord.path] = snap.fs[TopRecord.path]
          /\ slots'[call.coords[1]] = TopRecord.path
          /\ \A rc \in Coords \ {call.coords[1]} : slots'[rc] = slots[rc]
          /\ queue_paths' = queue_paths
          /\ total_deleted' = total_deleted - 1
          /\ total_deleted' = snap.total_deleted
    ]_vars

C5_Witness ==
    /\ call.op = "undo" /\ snap.set /\ Len(snap.coords) = 1 /\ Len(snap.batch) = 1
    /\ Len(call.restored) = 1
    /\ call.restored[1].path = snap.batch[1].path
    /\ slots[snap.coords[1]] = snap.batch[1].path
    /\ snap.queue_paths # <<>>

\* C6: undoLast on an empty Undo Stack signals once and changes no slot, not
\* the Backlog, the Undo Stack, the file system, a counter or the statistics.
C6_UndoOnEmptyStack ==
    [][(call'.op = "undo" /\ undo_stack = <<>>)
       => /\ call'.bells = 1
          /\ UNCHANGED <<fs, paths, queue_paths, slots, total_deleted, total_kept,
                         total_seen, undo_stack, stats, current_folder>>
    ]_vars

C6_Witness ==
    /\ call.op = "undo" /\ call.bells = 1
    /\ undo_stack = <<>>
    /\ total_deleted > 0
    /\ Occupied # {}

\* C7: the Undo Stack is LIFO and there is no redo. A dispose only ever pushes
\* on top; an undoLast removes exactly the top Batch, reverses records of that
\* Batch only, and every record it reverses has its file on disk again, in its
\* slot, with the content of the backup or kept file; nothing else changes the
\* stack, so disposes followed by as many undoLast calls are reversed last first.
C7_UndoIsLifo ==
    [][/\ DisposeStep => SubSeq(undo_stack', 1, Len(undo_stack)) = undo_stack
       /\ (UndoStep /\ undo_stack # <<>>) =>
            LET top == undo_stack[Len(undo_stack)]
            IN  /\ undo_stack' = SubSeq(undo_stack, 1, Len(undo_stack) - 1)
                /\ call'.batch = top
                /\ \A i \in DOMAIN top :
                      LET rc == <<top[i].r, top[i].c>>
                      IN  IF Restorable(fs, top[i]) /\ env' = env
                          THEN /\ slots'[rc] # NoPath
                               /\ Exists(fs', slots'[rc])
                               /\ fs'[slots'[rc]] = fs[top[i].backup]
                               /\ slots'[rc].stem[1] = top[i].path.stem[1]
                          ELSE env' = env => slots'[rc] = slots[rc]
                /\ \A rc \in Coords \ Range(BatchCoords(top)) : slots'[rc] = slots[rc]
       /\ ~(DisposeStep \/ UndoStep) => undo_stack' = undo_stack
    ]_vars

\* a dispose, a second dispose on the refilled slot, then two undos: the refill
\* came back first, the first file last, and both are on disk
C7_Witness ==
    /\ call.op = "undo"
    /\ calls = 3
    /\ undo_stack = <<>>
    /\ env = 0
    /\ Len(call.restored) = 1
    /\ call.restored[1].path = InitialFile(1)
    /\ slots[<<0, 0>>] = InitialFile(1)
    /\ Exists(fs, InitialFile(1))
    /\ Exists(fs, InitialFile(NumSlots + 1))
    /\ Exists(fs, BackupForPath(InitialFile(NumSlots + 1)))

\* whether name is what the renaming gives for original: original with one
\* piece (tag, i) appended, i >= 1, every smaller i being taken in f
IsSmallestFree(f, name, original, dir, tag) ==
    /\ name.dir = dir
    /\ name.ext = original.ext
    /\ Len(name.stem) = Len(original.stem) + 1
    /\ SubSeq(name.stem, 1, Len(original.stem)) = original.stem
    /\ name.stem[Len(name.stem)].t = tag
    /\ name.stem[Len(name.stem)].i >= 1
    /\ \A j \in 1 .. name.stem[Len(name.stem)].i - 1 :
          Exists(f, MkPath(dir, Append(original.stem, Tok(tag, j)), original.ext))

\* C8: undo and keep never overwrite a file. Every file that exists before and
\* after the call keeps its content, and every file the call writes gets a name
\* that was free: a restored discard goes to its original path if that is
\* free, else to name_restored_i with the smallest free i >= 1; a kept file
\* goes to kept/name if free, else to kept/name_i with the smallest free i >= 1;
\* an undone keep goes back to its original path if free, else to name_i.
C8_NeverOverwrites ==
    [][/\ (KeepStep \/ UndoStep) =>
            \A q \in DOMAIN fs \cap DOMAIN fs' : fs'[q] = fs[q]
       /\ KeepStep =>
            \A i \in DOMAIN PushedBatch :
               LET rec == PushedBatch[i]
                   plain == MkPath(KeptFolder, rec.path.stem, rec.path.ext)
               IN  /\ ~Exists(fs, rec.backup)
                   /\ Exists(fs', rec.backup)
                   /\ fs'[rec.backup] = fs[rec.path]
                   /\ IF Exists(fs', plain) /\ rec.backup # plain
                      THEN IsSmallestFree(fs', rec.backup, rec.path, KeptFolder, "U")
                      ELSE rec.backup = plain
       /\ (UndoStep /\ undo_stack # <<>>) =>
            \A k \in DOMAIN call'.restored :
               LET x   == call'.restored[k]
                   rec == undo_stack[Len(undo_stack)][x.i]
               IN  /\ slots'[x.rc] = x.path
                   /\ ~Exists(fs, x.path)
                   /\ Exists(fs', x.path)
                   /\ fs'[x.path] = fs[rec.backup]
                   /\ IF Exists(fs', rec.path) /\ x.path # rec.path
                      THEN IsSmallestFree(fs', x.path, rec.path, rec.path.dir,
                                          IF rec.op = "delete" THEN "R" ELSE "U")
                      ELSE x.path = rec.path
    ]_vars

\* a discard whose file stayed at its path is undone: the restore is renamed
C8_Witness ==
    /\ call.op = "undo"
    /\ Len(call.restored) = 1
    /\ call.batch[call.restored[1].i].op = "delete"
    /\ call.restored[1].path # call.batch[call.restored[1].i].path
    /\ Exists(fs, call.batch[call.restored[1].i].path)
    /\ Exists(fs, call.restored[1].path)

\* C9 (as claimed): a discard or keep call with one or more empty slots among
\* its coordinates signals exactly once for the whole call.
C9_OneSignalPerCall ==
    [][(DisposeStep /\ \E i \in DOMAIN call'.coords : ~IsOccupied(call'.coords[i]))
       => call'.bells = 1]_vars

\* C10: in a keep call, a file whose move failed stays at its path with its
\* content, its slot keeps that path, it gets no record and is not counted;
\* every file whose move succeeded is in kept/, has its record, and its slot is
\* refilled from the front of the Backlog in coordinate order; kept grows by
\* the number of files moved.
C10_FailedMoveLeavesSlot ==
    [][KeepStep =>
        LET occ    == OccupiedOf(call'.coords)
            moved  == SelectSeq(occ, LAMBDA rc : ~Exists(fs', slots[rc]))
            failed == SelectSeq(occ, LAMBDA rc : Exists(fs', slots[rc]))
        IN  /\ \A rc \in Range(occ) : Exists(fs, slots[rc])
            /\ \A rc \in Range(failed) :
                  /\ fs'[slots[rc]] = fs[slots[rc]]
                  /\ slots'[rc] = slots[rc]
                  /\ \A i \in DOMAIN PushedBatch : PushedBatch[i].path # slots[rc]
            /\ BatchCoords(PushedBatch) = moved
            /\ \A i \in DOMAIN moved :
                  /\ PushedBatch[i].path = slots[moved[i]]
                  /\ PushedBatch[i].backup.dir = KeptFolder
                  /\ fs'[PushedBatch[i].backup] = fs[slots[moved[i]]]
                  /\ slots'[moved[i]] = IF i <= Len(queue_paths) THEN queue_paths[i] ELSE NoPath
            /\ total_kept' = total_kept + Len(moved)
            /\ queue_paths' = SubSeq(queue_paths, Min(Len(moved), Len(queue_paths)) + 1,
                                     Len(queue_paths))
    ]_vars

\* keep-all on four images, one move failing: three records, one slot untouched
C10_Witness ==
    /\ call.op = "keep"
    /\ Len(call.coords) = NumSlots
    /\ call.bells = 0
    /\ Len(call.batch) = NumSlots - 1
    /\ total_kept = NumSlots - 1
    /\ \E rc \in Coords : slots[rc] \in Range(paths) /\ slots[rc] = paths[2]

\* C11 (as claimed): right after a load all session state is reset: the slots
\* and the Backlog are rebuilt from the new listing, seen counts the slots just
\* filled, discarded and kept are 0, and the Undo Stack is empty.
C11_LoadResetsAll ==
    call.op = "load" =>
        /\ queue_paths = SubSeq(paths, Cardinality(Occupied) + 1, Len(paths))
        /\ total_seen = Cardinality(Occupied)
        /\ total_deleted = 0
        /\ total_kept = 0
        /\ undo_stack = <<>>

\* a step of a pool thread: a decode ending, a callback called, a thumbnail written
WorkerStep == call'.op \in {"store", "fail", "deliver", "write"}

\* C12: seen grows by exactly 1 for every fill that assigns a path, at the time
\* of the assignment: a dispose adds one per refilled slot that got a path (as
\* many as the Backlog could give) and nothing for a fill on an exhausted
\* Backlog, a load counts the slots it filled, and no step of a decode or of a
\* thumbnail delivery changes seen, whatever the decode's outcome.
C12_SeenCountsAssignments ==
    [][/\ DisposeStep =>
            /\ total_seen' = total_seen + Min(Len(PushedBatch), Len(queue_paths))
            /\ total_seen' = total_seen
                  + Cardinality({rc \in Range(BatchCoords(PushedBatch)) : slots'[rc] # NoPath})
            /\ stats'.seen = total_seen'
       /\ LoadStep =>
            /\ total_seen' = Min(NumSlots, Len(paths'))
            /\ total_seen' = Cardinality({rc \in Coords : slots'[rc] # NoPath})
       /\ WorkerStep => total_seen' = total_seen /\ stats' = stats
    ]_vars

\* a discard of all four slots with one image left on the Backlog, after the
\* thumbnail of the first image was delivered: one fill assigned, three did not
C12_Witness ==
    /\ call.op = "delete"
    /\ Len(call.batch) = NumSlots
    /\ Len(paths) = NumSlots + 1
    /\ total_seen = NumSlots + 1
    /\ Cardinality(Occupied) = 1
    /\ Exists(cache, InitialFile(1))
    /\ work > 0

\* whether s is what is left of seq after taking k elements from its front
IsSuffixFrom(s, seq, k) == k \in 0 .. Len(seq) /\ s = SubSeq(seq, k + 1, Len(seq))

\* C13: between loads the Backlog is a suffix of the load-time listing, which
\* holds no path twice; the number of paths taken from its front is the number
\* of fills that assigned a path (seen), so no listed path is assigned by a
\* fill twice. A dispose takes the paths it assigns from the front, in order;
\* every other step that is no load, undoLast included, leaves the Backlog and
\* the listing as they are.
C13_BacklogIsSuffix ==
    [][/\ IsSuffixFrom(queue_paths', paths', total_seen')
       /\ \A i, j \in DOMAIN paths' : paths'[i] = paths'[j] => i = j
       /\ ~LoadStep => paths' = paths
       /\ DisposeStep =>
            LET refilled == BatchCoords(PushedBatch)
                taken    == Min(Len(refilled), Len(queue_paths))
            IN  /\ IsSuffixFrom(queue_paths', queue_paths, taken)
                /\ \A i \in 1 .. taken : slots'[refilled[i]] = queue_paths[i]
                /\ \A i \in 1 .. taken : queue_paths[i] \notin Range(queue_paths')
       /\ ~(LoadStep \/ DisposeStep) => queue_paths' = queue_paths
    ]_vars

\* five images, a discard of slot (0,0) and its undo: the first image is back in
\* its slot, the fifth one that had refilled the slot is not back on the Backlog
C13_Witness ==
    /\ call.op = "undo"
    /\ Len(call.restored) = 1
    /\ Len(paths) = NumSlots + 1
    /\ slots[<<0, 0>>] = paths[1]
    /\ queue_paths = <<>>
    /\ total_seen = NumSlots + 1
    /\ paths[NumSlots + 1] \notin {slots[rc] : rc \in Coords}

\* C14 (as claimed): the slots' paths and displayed thumbnails, the Backlog,
\* the Undo Stack and the statistics are written by the interactive thread
\* only: no step of a pool thread changes any of them.
C14_InteractiveThreadOnly ==
    [][WorkerStep => UNCHANGED <<slots, photo, queue_paths, undo_stack, stats>>]_vars

\* C15 (as claimed): a thumbnail made for path P is written into a slot only
\* if P is the slot's assigned path at the moment of the write, whatever
\* fillSlot, dispose, undo or load did to the slot while the delivery was under way.
C15_NoStaleDelivery ==
    [][\A rc \in Coords :
          (photo'[rc] # photo[rc] /\ photo'[rc] # NoPhoto) => slots'[rc] = photo'[rc].path
    ]_vars

\* the submitted tasks whose decode has not finished
Outstanding == {t \in tasks : t.pc = "queued"}

\* C16 (as claimed): at any time at most one decode task per path is
\* outstanding; a request for a path whose decode is in flight submits none.
C16_OneDecodePerPath ==
    \A t, u \in Outstanding : t.path = u.path => t = u

\* C17: undoLast reverses the records of the popped Batch one by one. A record
\* is skipped exactly when its backup reference is empty, its backup or kept
\* file is missing, or its restore raised; a skipped record leaves its slot as
\* it was and is not counted. Every other record has its file on disk again,
\* with the content of the backup or kept file, in the slot the record names,
\* and takes 1 off its counter (not below 0). The Batch is off the stack in
\* every case.
C17_UndoSkipsPerRecord ==
    [][(UndoStep /\ undo_stack # <<>>) =>
        LET top      == undo_stack[Len(undo_stack)]
            done     == {call'.restored[k].i : k \in DOMAIN call'.restored}
            skipped  == DOMAIN top \ done
            missing  == {i \in DOMAIN top : ~Restorable(fs, top[i])}
            of(op)   == Cardinality({i \in done : top[i].op = op})
        IN  /\ undo_stack' = SubSeq(undo_stack, 1, Len(undo_stack) - 1)
            /\ done \subseteq DOMAIN top
            /\ missing \subseteq skipped
            /\ Cardinality(skipped \ missing) = env' - env
            /\ \A i \in skipped : slots'[<<top[i].r, top[i].c>>] = slots[<<top[i].r, top[i].c>>]
            /\ \A k \in DOMAIN call'.restored :
                  LET x == call'.restored[k]
                  IN  /\ x.rc = <<top[x.i].r, top[x.i].c>>
                      /\ slots'[x.rc] = x.path
                      /\ Exists(fs', x.path)
                      /\ fs'[x.path] = fs[top[x.i].backup]
            /\ Len(call'.restored) = Cardinality(done)
            /\ total_deleted' = Max(0, total_deleted - of("delete"))
            /\ total_kept' = Max(0, total_kept - of("keep"))
    ]_vars

\* a Batch of four records whose first one cannot be restored: the other three
\* are back in their slots
C17_Witness ==
    /\ call.op = "undo"
    /\ Len(call.batch) = NumSlots
    /\ Len(call.restored) = NumSlots - 1
    /\ call.restored[1].i = 2
    /\ \A k \in DOMAIN call.restored : slots[call.restored[k].rc] = call.restored[k].path
    /\ Cardinality(Occupied) = NumSlots - 1

\* C18: a discard goes through whatever copy2 and send2trash do. Every
\* coordinate whose slot held a path gets its record, in coordinate order; a
\* record whose backup copy failed has an empty backup reference and the
\* Backup Store entry of its path is as before, any other record refers to a
\* backup holding the file's content; a file whose trash call failed is still
\* at its path with its content; the failures are as many as the empty
\* references plus the files still there; and every one of these slots is
\* refilled from the front of the Backlog, in coordinate order.
C18_DiscardNeverBlocked ==
    [][DiscardStep =>
        LET occ   == OccupiedOf(call'.coords)
            batch == PushedBatch
            nobackup == {i \in DOMAIN batch : batch[i].backup = NoPath}
            untrashed == {i \in DOMAIN batch : Exists(fs', batch[i].path)}
        IN  /\ BatchCoords(batch) = occ
            /\ \A i \in DOMAIN batch :
                  LET path == slots[occ[i]]
                  IN  /\ batch[i].path = path
                      /\ batch[i].op = "delete"
                      /\ IF i \in nobackup
                         THEN /\ Exists(fs', BackupForPath(path)) = Exists(fs, BackupForPath(path))
                              /\ Exists(fs, BackupForPath(path))
                                    => fs'[BackupForPath(path)] = fs[BackupForPath(path)]
                         ELSE /\ batch[i].backup = BackupForPath(path)
                              /\ Exists(fs', batch[i].backup)
                              /\ fs'[batch[i].backup] = fs[path]
                      /\ i \in untrashed => fs'[path] = fs[path]
                      /\ slots'[occ[i]] = IF i <= Len(queue_paths) THEN queue_paths[i] ELSE NoPath
            /\ Cardinality(nobackup) + Cardinality(untrashed) = env' - env
            /\ queue_paths' = SubSeq(queue_paths, Min(Len(occ), Len(queue_paths)) + 1,
                                     Len(queue_paths))
    ]_vars

\* a discard of all four slots, five images, the backup copy of the first one
\* failing: four records, the first with an empty backup reference, its slot
\* refilled with the fifth image
C18_Witness ==
    /\ call.op = "delete"
    /\ Len(call.batch) = NumSlots
    /\ call.batch[1].backup = NoPath
    /\ ~Exists(fs, call.batch[1].path)
    /\ call.batch[2].backup # NoPath
    /\ undo_stack # <<>> /\ undo_stack[Len(undo_stack)] = call.batch
    /\ Len(paths) = NumSlots + 1
    /\ slots[<<0, 0>>] = paths[NumSlots + 1]

\* C19 (as claimed): whenever done hands a thumbnail for path P to the
\* callback, that thumbnail is the cache's entry for P at that moment.
C19_DeliversCurrentEntry ==
    [][call'.op = "deliver" =>
          /\ Exists(cache, call'.img.path)
          /\ cache[call'.img.path] = call'.img
    ]_vars

\* C20 (as claimed): after a dispose or an undoLast, a slot that was assigned
\* a different path shows the placeholder or a thumbnail of its new path,
\* never the thumbnail of the path it held before.
C20_NoLeftoverThumbnail ==
    [][(DisposeStep \/ UndoStep) =>
          \A rc \in Coords :
             slots'[rc] # slots[rc] => (photo'[rc] = NoPhoto \/ photo'[rc].path = slots'[rc])
    ]_vars

\* the slots a handler step assigned a path to, each with one get_or_submit
\* request for that path: the slots a load filled, the slots a dispose
\* refilled, the slots an undoLast re-inserted a restored path into
Requested ==
    IF LoadStep THEN {rc \in Coords : slots'[rc] # NoPath}
    ELSE IF DisposeStep
    THEN {rc \in Range(BatchCoords(PushedBatch)) : slots'[rc] # NoPath}
    ELSE IF UndoStep THEN {call'.restored[k].rc : k \in DOMAIN call'.restored}
    ELSE {}

\* C21: a request for a path that has a cache entry delivers that entry within
\* the same call (the slot shows the cached thumbnail when the handler
\* returns) and submits no decode task for it; the cache itself is untouched.
C21_HitDeliversAtOnce ==
    [][\A rc \in Requested :
          Exists(cache, slots'[rc]) =>
             /\ photo'[rc] = cache[slots'[rc]]
             /\ ~\E t \in tasks' \ tasks : t.path = slots'[rc]
             /\ cache' = cache
    ]_vars

\* a second load after the first image's decode was stored and before its
\* callback ran: the first slot shows the cached thumbnail, no task was added
C21_Witness ==
    /\ call.op = "load"
    /\ calls = 2
    /\ work = 1
    /\ Exists(cache, slots[<<0, 0>>])
    /\ photo[<<0, 0>>] = cache[slots[<<0, 0>>]]
    /\ Outstanding = {}
    /\ Cardinality(tasks) = 1

\* C22: the cache's key set only grows. An entry is written only by the step
\* of a decode that succeeded, and it is the thumbnail that decode made; a
\* decode that failed writes no entry, changes no displayed thumbnail and
\* leaves no callback behind; no load, dispose or undoLast removes or changes
\* an entry.
C22_CacheOnlyGrows ==
    [][/\ DOMAIN cache \subseteq DOMAIN cache'
       /\ cache' # cache =>
             /\ call'.op = "store"
             /\ cache' = Put(cache, call'.img.path, call'.img)
       /\ call'.op = "store" => Exists(cache', call'.img.path)
       /\ call'.op = "fail" =>
             /\ cache' = cache
             /\ photo' = photo
             /\ tasks' \subseteq tasks /\ Cardinality(tasks') = Cardinality(tasks) - 1
       /\ (LoadStep \/ DisposeStep \/ UndoStep) => cache' = cache
    ]_vars

\* two loads before any decode ended, the decode of the first load's task then
\* stored and the decode of the second load's task failing: the entry of the
\* first decode is still in the cache, and the failed task is gone
C22_Witness ==
    /\ call.op = "fail"
    /\ calls = 2
    /\ work = 2
    /\ Exists(cache, call.img.path)
    /\ cache[call.img.path].gen < call.img.gen
    /\ Cardinality(tasks) = 1
    /\ Outstanding = {}

\* C23: a dispose changes exactly the slots that got a record in its Batch.
\* Those slots, taken in coordinate order, get the first paths of the Backlog
\* one each, and are left empty once the Backlog is exhausted; the Backlog
\* loses the paths it gave; every other slot keeps the path it had.
C23_DisposeFrame ==
    [][DisposeStep =>
          LET bc == BatchCoords(PushedBatch)
              InBatch(rc) == rc \in Range(bc)
          IN  /\ bc = SelectSeq(RowMajor, InBatch)
              /\ \A i \in DOMAIN bc :
                    /\ slots'[bc[i]] = IF i <= Len(queue_paths) THEN queue_paths[i] ELSE NoPath
                    /\ slots'[bc[i]] # slots[bc[i]]
              /\ \A rc \in Coords \ Range(bc) : slots'[rc] = slots[rc]
              /\ queue_paths' = SubSeq(queue_paths, Min(Len(bc), Len(queue_paths)) + 1,
                                       Len(queue_paths))
    ]_vars

\* five images, a discard of slot (0,1) alone: it holds the fifth image, the
\* three other slots hold the images the load gave them
C23_Witness ==
    /\ call.op = "delete"
    /\ call.coords = <<<<0, 1>>>>
    /\ Len(call.batch) = 1
    /\ Len(paths) = NumSlots + 1
    /\ slots[<<0, 1>>] = paths[NumSlots + 1]
    /\ slots[<<0, 0>>] = paths[1]
    /\ slots[<<1, 0>>] = paths[3]
    /\ slots[<<1, 1>>] = paths[4]
    /\ queue_paths = <<>>

\* what the statistics bar shows when it is current
CurrentStats ==
    [total |-> Len(paths), left |-> Len(queue_paths), deleted |-> total_deleted,
     kept |-> total_kept, seen |-> total_seen]

\* C24: no stale statistic survives a mutation: in every state, so after every
\* completed load, dispose and undoLast (the fills they make included), the
\* displayed total, remaining, discarded, kept and seen equal the listing
\* length, the Backlog length and the three counters.
C24_StatsCurrent == stats = CurrentStats

\* a keep of one slot, the Backlog giving a refill, then its undo: the display
\* shows no kept image again, and the seen count the refill had raised
C24_Witness ==
    /\ call.op = "undo"
    /\ Len(call.restored) = 1
    /\ call.batch[1].op = "keep"
    /\ total_kept = 0 /\ stats.kept = 0
    /\ total_seen = NumSlots + 1 /\ stats.seen = NumSlots + 1
    /\ stats.left = Len(queue_paths)
    /\ stats.total = Len(paths)

\* the paths assigned to slots
SlotPaths == {slots[rc] : rc \in Coords} \ {NoPath}

\* a listed path that is still in triage: waiting in the Backlog or shown
InTriage == Range(paths) \cap (Range(queue_paths) \cup SlotPaths)

\* C25 (as claimed): no undisposed image is lost from triage. Between loads,
\* a listed path that is in the Backlog or in a slot before a step is, after
\* it, in the Backlog, or in a slot, or has a record in the Batch the step
\* pushed (it was disposed by that discard or keep); in particular an
\* undoLast that re-inserts a restored path into a slot refilled in the
\* meantime does not drop the path that slot was holding.
C25_NoImageLost ==
    [][~LoadStep =>
          \A p \in InTriage :
             \/ p \in InTriage'
             \/ \E i \in DOMAIN PushedBatch : PushedBatch[i].path = p
    ]_vars

\* C26: in every state total = remaining + seen: the listing length equals the
\* Backlog length plus the seen counter, in the program's fields and in the
\* values the statistics bar shows.
C26_TotalIsLeftPlusSeen ==
    /\ Len(paths) = Len(queue_paths) + total_seen
    /\ stats.total = stats.left + stats.seen

\* five images, a keep of all four slots with one refill, then its undo
\* re-inserting the four kept images: 5 = 0 + 5
C26_Witness ==
    /\ call.op = "undo"
    /\ Len(call.restored) = NumSlots
    /\ call.batch[1].op = "keep"
    /\ Len(paths) = NumSlots + 1
    /\ queue_paths = <<>>
    /\ total_seen = NumSlots + 1
    /\ stats.total = NumSlots + 1 /\ stats.left = 0 /\ stats.seen = NumSlots + 1

\* C27 (as claimed): in every state discarded + kept <= seen, so the
\* discarded-of-seen ratio the statistics bar shows never exceeds 100%.
C27_DisposedAtMostSeen == total_deleted + total_kept <= total_seen

\* C28: in every state, so after every completed load, dispose (a keep with
\* failed moves or without a kept folder included) and undoLast, a slot is
\* empty only if the Backlog is empty.
C28_EmptyOnlyWhenExhausted ==
    (\E rc \in Coords : slots[rc] = NoPath) => queue_paths = <<>>

\* five images, a keep of all four slots with one move failing: that slot
\* keeps its image, the first refilled slot gets the fifth image, the two
\* other slots are empty and so is the Backlog
C28_Witness ==
    /\ call.op = "keep"
    /\ Len(call.coords) = NumSlots
    /\ Len(call.batch) = NumSlots - 1
    /\ Len(paths) = NumSlots + 1
    /\ Cardinality(Occupied) = 2
    /\ queue_paths = <<>>
    /\ paths[NumSlots + 1] \in SlotPaths
====
